---- MODULE Spec2Model ----
(***************************************************************************)
(* A model of tianshou's C51Policy (src/tianshou/policy/modelfree/c51.py): *)
(* the constructor, _target_q, forward, _target_dist and learn.            *)
(*                                                                         *)
(* Real numbers are exact rationals <<numerator, denominator>> in lowest   *)
(* terms with a positive denominator, so that the support grid, delta_z    *)
(* and the projection are computed by the same arithmetic as the code      *)
(* (floating-point rounding is not modelled).                              *)
(***************************************************************************)
EXTENDS Integers, Sequences, FiniteSets, TLC

(* ------------------------------ bounds --------------------------------- *)

\* num_atoms offered to the constructor ranges over 0..MaxAtoms
MaxAtoms == 3
\* the number of discrete actions of the environment
NumActions == 2
\* target_update_freq offered to the constructor ranges over 0..MaxFreq
MaxFreq == 2
\* learn is called at most MaxCnt times
MaxCnt == 4

(* ------------------------------ inputs --------------------------------- *)

\* the weights the network can have
Theta == {0, 1, 2}
\* v_min and v_max offered to the constructor
VVals == {-1, 0, 1}
\* the number of samples of a batch
BatchSizes == {1, 2}
\* the observations of the environment
Obs == {0, 1}

(* ----------------------------- rationals ------------------------------- *)

Abs(x) == IF x < 0 THEN -x ELSE x

RECURSIVE Gcd(_, _)
Gcd(a, b) == IF b = 0 THEN a ELSE Gcd(b, a % b)

\* n/d in lowest terms, d # 0
Rat(n, d) ==
    LET s == IF d < 0 THEN -1 ELSE 1
        g == Gcd(Abs(n), Abs(d))
    IN  <<(s * n) \div g, (s * d) \div g>>

Zero == Rat(0, 1)
One == Rat(1, 1)
RAdd(x, y) == Rat(x[1] * y[2] + y[1] * x[2], x[2] * y[2])
RSub(x, y) == Rat(x[1] * y[2] - y[1] * x[2], x[2] * y[2])
RMul(x, y) == Rat(x[1] * y[1], x[2] * y[2])
RDiv(x, y) == Rat(x[1] * y[2], x[2] * y[1])
RNeg(x) == <<-x[1], x[2]>>
RAbs(x) == <<Abs(x[1]), x[2]>>
RLt(x, y) == x[1] * y[2] < y[1] * x[2]
RLe(x, y) == x[1] * y[2] <= y[1] * x[2]
RMax(x, y) == IF RLt(x, y) THEN y ELSE x
RMin(x, y) == IF RLt(y, x) THEN y ELSE x

RECURSIVE RSumTo(_, _)
\* f[1] + ... + f[n]
RSumTo(f, n) == IF n = 0 THEN Zero ELSE RAdd(RSumTo(f, n - 1), f[n])

\* (the sequence is bound as a value once: TLC evaluates a definition's
\* parameters anew at each use)
RSum(f) == RSumTo(f, Len(f))

\* torch.Tensor.clamp(lo, hi)
Clamp(x, lo, hi) == RMin(RMax(x, lo), hi)

\* -inf as numpy's q_[~mask] = -np.inf: below every rational under RLt
NegInf == <<-1, 0>>

(* ------------------------- the policy's state -------------------------- *)

VARIABLES
    status,      \* "new": before __init__; "ready": constructed; "rejected": __init__ raised
    args,        \* the arguments __init__ was called with
    num_atoms,   \* self._num_atoms
    v_min,       \* self._v_min
    v_max,       \* self._v_max
    support,     \* self.support
    delta_z,     \* self.delta_z
    target,      \* self._target  (DQNPolicy)
    freq,        \* self._freq    (DQNPolicy)
    cnt,         \* self._cnt     (DQNPolicy)
    model,       \* the weights of self.model
    model_old,   \* the weights of self.model_old
    last,        \* the last call: its inputs and what it returned
    syncs        \* per learn call so far, whether it called sync_weight

vars == <<status, args, num_atoms, v_min, v_max, support, delta_z, target, freq,
          cnt, model, model_old, last, syncs>>

fields == <<num_atoms, v_min, v_max, support, delta_z, target, freq, cnt>>

Actions == 0 .. NumActions - 1
Atoms == 1 .. num_atoms

(* ----------------------------- __init__ -------------------------------- *)

\* Linspace with the end point left out, as numpy's endpoint=False
Linspace_NoEndpoint(start, end, steps) ==
    [i \in 1 .. steps |->
        RAdd(start, RMul(Rat(i - 1, 1), RDiv(RSub(end, start), Rat(steps, 1))))]

\* torch.linspace(start, end, steps): steps values, start + i * (end - start) / (steps - 1)
Linspace(start, end, steps) ==
    [i \in 1 .. steps |->
        RAdd(start, RMul(Rat(i - 1, 1), RDiv(RSub(end, start), Rat(steps - 1, 1))))]

\* the checks with v_min <= v_max for v_min < v_max
ChecksPass_Le(a) == a.num_atoms > 1 /\ RLe(a.v_min, a.v_max)

\* the two assertions of __init__
ChecksPass(a) == a.num_atoms > 1 /\ RLt(a.v_min, a.v_max)

\* the range divided by the number of atoms
DeltaZ_ByAtoms(a) == RDiv(RSub(a.v_max, a.v_min), Rat(a.num_atoms, 1))

\* self.delta_z = (v_max - v_min) / (num_atoms - 1)
DeltaZ(a) == RDiv(RSub(a.v_max, a.v_min), Rat(a.num_atoms - 1, 1))

\* DQNPolicy.__init__: self._target = target_update_freq > 0
UsesTarget(f) == f > 0

CtorArgs ==
    [num_atoms : 0 .. MaxAtoms,
     v_min : {Rat(v, 1) : v \in VVals},
     v_max : {Rat(v, 1) : v \in VVals},
     target_update_freq : 0 .. MaxFreq,
     theta : {0}]

\* the fields of the object __init__ builds from arguments that pass its checks;
\* self._target, self._freq, self._cnt and self.model_old are set by
\* DQNPolicy.__init__
Built(a) ==
    [target |-> UsesTarget(a.target_update_freq),
     freq |-> a.target_update_freq,
     cnt |-> 0,
     model |-> a.theta,
     model_old |-> IF UsesTarget(a.target_update_freq) THEN a.theta ELSE -1,
     num_atoms |-> a.num_atoms,
     v_min |-> a.v_min,
     v_max |-> a.v_max,
     support |-> Linspace(a.v_min, a.v_max, a.num_atoms),
     delta_z |-> DeltaZ(a)]

Construct(a) ==
    /\ status = "new"
    /\ args' = a
    /\ last' = [op |-> "init"]
    /\ syncs' = <<>>
    /\ IF ChecksPass(a)
       THEN /\ status' = "ready"
            /\ target' = Built(a).target
            /\ freq' = Built(a).freq
            /\ cnt' = Built(a).cnt
            /\ model' = Built(a).model
            /\ model_old' = Built(a).model_old
            /\ num_atoms' = Built(a).num_atoms
            /\ v_min' = Built(a).v_min
            /\ v_max' = Built(a).v_max
            /\ support' = Built(a).support
            /\ delta_z' = Built(a).delta_z
       ELSE /\ status' = "rejected"
            /\ UNCHANGED <<fields, model, model_old>>

Init ==
    /\ status = "new"
    /\ args = [num_atoms |-> 0, v_min |-> Zero, v_max |-> Zero,
               target_update_freq |-> 0, theta |-> 0]
    /\ num_atoms = 0
    /\ v_min = Zero
    /\ v_max = Zero
    /\ support = <<>>
    /\ delta_z = Zero
    /\ target = FALSE
    /\ freq = 0
    /\ cnt = 0
    /\ model = -1
    /\ model_old = -1
    /\ last = [op |-> "none"]
    /\ syncs = <<>>

(* ----------------------------- _target_q ------------------------------- *)

\* self.support.repeat(len(indice), 1)
TargetQOp(n) == [k \in 1 .. n |-> support]

TargetQ ==
    /\ status = "ready"
    /\ \E n \in {0} \cup BatchSizes :
         last' = [op |-> "target_q", n |-> n, out |-> TargetQOp(n)]
    /\ UNCHANGED <<status, args, fields, model, model_old, syncs>>

(* ------------------------------ forward -------------------------------- *)

\* The network is a parameter of the policy. Its outputs are drawn from a family
\* of distributions over the atoms: shape k < n is the point mass on atom k + 1,
\* shape n puts one half on the first atom and one half on the last.
Shape(k, n) ==
    [i \in 1 .. n |->
        IF k < n THEN (IF i = k + 1 THEN One ELSE Zero)
        ELSE (IF i = 1 \/ i = n THEN Rat(1, 2) ELSE Zero)]

\* dist, h = model(obs_, ...): one distribution per action, a function of the
\* weights and the observation
NetOut(theta, o) ==
    [a \in Actions |-> Shape((theta * (a + 1) + o) % (num_atoms + 1), num_atoms)]

\* the sum of each distribution, without the support
QValues_NoSupport(dist) ==
    [a \in Actions |-> RSum([i \in Atoms |-> dist[a][i]])]

\* q = (dist * self.support).sum(2), for one sample
QValues(dist) ==
    [a \in Actions |-> RSum([i \in Atoms |-> RMul(dist[a][i], support[i])])]

\* the mask left unapplied
Masked_Ignored(q, valid) == q

\* q_[~mask] = -np.inf, for one sample; valid is the set of actions whose mask is true
Masked(q, valid) == [a \in Actions |-> IF a \in valid THEN q[a] ELSE NegInf]

\* argmax: the index of the first maximal entry
ArgMax(q) ==
    CHOOSE a \in Actions :
        /\ \A b \in Actions : ~RLt(q[a], q[b])
        /\ \A b \in Actions : b < a => RLt(q[b], q[a])

\* np.isclose(eps, 0.0): |eps| <= atol = 1e-8
IsCloseToZero(e) == RLe(RAbs(e), Rat(1, 100000000))

\* the condition without its test of self.updating
Explores_IgnoresUpdating(updating, eps) == ~IsCloseToZero(eps)

\* the condition of the exploration loop
Explores(updating, eps) == ~updating /\ ~IsCloseToZero(eps)

\* q.max(dim=1)[1], or the masked argmax when the observation has a mask
GreedyAct(q, has_mask, valid) ==
    IF has_mask THEN ArgMax(Masked(q, valid)) ELSE ArgMax(q)

\* the body of the exploration loop for one sample; r.u and r.vec are the
\* outcomes of np.random.rand() and np.random.rand(*q[i].shape)
ExploreAct(act, has_mask, valid, eps, r) ==
    IF RLt(r.u, eps)
    THEN (IF has_mask THEN ArgMax(Masked(r.vec, valid)) ELSE ArgMax(r.vec))
    ELSE act

\* dist, h = model(obs_, ...) over the batch: what forward returns as logits
Logits(mdl, b) == [s \in 1 .. Len(b.obs) |-> NetOut(mdl, b.obs[s])]

\* forward(batch, model=mdl, input=...): b.obs are the observations, b.mask[s] the
\* valid actions of sample s when b.has_mask
ForwardOp(mdl, b, updating, eps, rng) ==
    LET n == Len(b.obs)
        dist == Logits(mdl, b)
        valid(s) == IF b.has_mask THEN b.mask[s] ELSE Actions
        greedy(s) == GreedyAct(QValues(NetOut(mdl, b.obs[s])), b.has_mask, valid(s))
        act == [s \in 1 .. n |->
                  IF Explores(updating, eps)
                  THEN ExploreAct(greedy(s), b.has_mask, valid(s), eps, rng[s])
                  ELSE greedy(s)]
    IN  [logits |-> dist, act |-> act]

\* the outcomes of np.random.rand(): values of [0, 1)
RandVals == {Zero, Rat(1, 2)}

\* the outcomes of np.random.rand(*q[i].shape): one entry above the others
RandVecs ==
    {[a \in Actions |-> IF a = k THEN Rat(1, 2) ELSE Zero] : k \in Actions}

\* the random numbers one forward call draws: none unless the loop runs
RngFor(n, updating, eps) ==
    IF Explores(updating, eps)
    THEN [1 .. n -> [u : RandVals, vec : RandVecs]]
    ELSE {<<>>}

\* self.eps: 0, a value np.isclose takes for 0, and 1/2
EpsVals == {Zero, Rat(1, 100000000), Rat(1, 2)}

\* observation batches of the given sizes: with no mask (FALSE \in masks), with a
\* mask per sample (TRUE \in masks)
ObsBatches(sizes, obsVals, masks) ==
    UNION {[obs : [1 .. n -> obsVals], has_mask : masks \cap {FALSE}, mask : {<<>>}]
           \cup [obs : [1 .. n -> obsVals], has_mask : masks \cap {TRUE},
                 mask : [1 .. n -> SUBSET Actions]] : n \in sizes}

Forward(b, updating, eps, rng) ==
    /\ status = "ready"
    /\ last' = [op |-> "forward", batch |-> b, updating |-> updating, eps |-> eps,
                rng |-> rng, model |-> model,
                out |-> ForwardOp(model, b, updating, eps, rng)]
    /\ UNCHANGED <<status, args, fields, model, model_old, syncs>>

(* ---------------------------- _target_dist ----------------------------- *)

\* the weight without its clamp to [0, 1]
ProjWeight_NoClamp(ts, i) ==
    RSub(One, RDiv(RAbs(RSub(ts, support[i])), delta_z))

\* (1 - |target_support_j - support_i| / delta_z).clamp(0, 1)
ProjWeight(ts, i) ==
    Clamp(RSub(One, RDiv(RAbs(RSub(ts, support[i])), delta_z)), Zero, One)

\* the projection of one sample: ret are its returns (one per atom), nd the
\* distribution of its next state under the chosen action. (CHOOSE over a
\* one-element set names an intermediate tensor: target_support and next_dist are
\* computed once, as in the code.)
Project(ret, nd) ==
    CHOOSE target_dist \in
        {[i \in Atoms |->
             RSum([j \in Atoms |-> RMul(ProjWeight(target_support[j], i), next_dist[j])])] :
            target_support \in {[j \in Atoms |-> Clamp(ret[j], v_min, v_max)]},
            next_dist \in {nd}} :
        TRUE

\* the weights the next action is taken from: always self.model
ActWeights(mdl, old) == mdl

\* the weights the next distribution is taken from: self.model_old with a target
\* network, self.model without
NextWeights(mdl, old) == IF target THEN old ELSE mdl

\* _target_dist(batch), with self.model = mdl and self.model_old = old
TargetDistOp(mdl, old, b, updating, eps, rng) ==
    CHOOSE target_dist \in
        {[s \in 1 .. Len(b.returns) |-> Project(b.returns[s], logits[s][a[s]])] :
            a \in {ForwardOp(ActWeights(mdl, old), b.obs_next, updating, eps, rng).act},
            logits \in {Logits(NextWeights(mdl, old), b.obs_next)}} :
        TRUE

(* ------------------------------- learn --------------------------------- *)

\* the natural logarithm of k, in thousandths
LnMilli(k) ==
    CASE k = 1 -> 0
      [] k = 2 -> 693
      [] k = 3 -> 1099
      [] k = 4 -> 1386
      [] k = 5 -> 1609
      [] k = 6 -> 1792

\* torch.log(p + 1e-8) to three decimals: log(1e-8) = -18.421 at p = 0
Log(p) ==
    IF p[1] = 0 THEN Rat(-18421, 1000)
    ELSE Rat(LnMilli(p[1]) - LnMilli(p[2]), 1000)

\* - (target_dist * torch.log(curr_dist + 1e-8)).sum(1), for one sample
CrossEntropy(td, cd) ==
    RNeg(RSum([i \in Atoms |-> RMul(td[i], Log(cd[i]))]))

\* weight = batch.pop("weight", 1.0), as one factor per sample
Weights(b) ==
    [s \in 1 .. Len(b.act) |-> IF b.has_weight THEN b.weight[s] ELSE One]

\* the sum for the mean
Loss_Sum(ce, w) == RSum([s \in 1 .. Len(ce) |-> RMul(ce[s], w[s])])

\* (cross_entropy * weight).mean()
Loss(ce, w) ==
    RDiv(RSum([s \in 1 .. Len(ce) |-> RMul(ce[s], w[s])]), Rat(Len(ce), 1))

\* the test made on the counter after its increment
ShouldSync_AfterIncrement == target /\ (cnt + 1) % freq = 0

\* self._target and self._cnt % self._freq == 0
ShouldSync == target /\ cnt % freq = 0

\* self.model_old when _target_dist runs: sync_weight() copies self.model into it
OldAtTarget == IF ShouldSync THEN model ELSE model_old

Learn(b, updating, eps, rng, stepped) ==
    /\ status = "ready"
    /\ cnt < MaxCnt
    /\ \E td \in {TargetDistOp(model, OldAtTarget, b, updating, eps, rng)} :
       \E logits \in {Logits(model, b.obs)} :
       \E ce \in {[s \in 1 .. Len(b.act) |->
                     CrossEntropy(td[s], logits[s][b.act[s]])]} :
        /\ model_old' = OldAtTarget
        /\ model' = stepped
        /\ cnt' = cnt + 1
        /\ syncs' = Append(syncs, ShouldSync)
        /\ last' = [op |-> "learn", batch |-> b, updating |-> updating, eps |-> eps,
                    rng |-> rng, model |-> model, model_old |-> model_old,
                    synced |-> ShouldSync, rem_taken |-> target,
                    act_from |-> ActWeights(model, OldAtTarget),
                    next_from |-> NextWeights(model, OldAtTarget),
                    target_dist |-> td, cross_entropy |-> ce,
                    loss |-> Loss(ce, Weights(b))]
        /\ UNCHANGED <<status, args, num_atoms, v_min, v_max, support, delta_z,
                       target, freq>>

(* --------------------------- the environment --------------------------- *)

\* self.updating, self.eps and the random numbers of one forward over n samples
Calls(n, epsVals) ==
    UNION {[updating : {u}, eps : {e}, rng : RngFor(n, u, e)] :
           u \in BOOLEAN, e \in epsVals}

\* batch.returns as the n-step return builds it from _target_q: r + g * support
NStepReturns ==
    {[j \in Atoms |-> RAdd(r, RMul(g, support[j]))] :
        r \in {Rat(-1, 2), Rat(1, 1)}, g \in {One}}

\* single returns: on the grid, between its atoms and beyond its ends
RetVals == {Rat(k, 2) : k \in -3 .. 3}

\* the entries of a next-state distribution
ProbVals == {Zero, Rat(1, 2), One}

\* next-state distributions over the atoms, normalised or not
NextDists == {nd \in [Atoms -> ProbVals] : RLe(RSum(nd), Rat(3, 2))}

\* importance weights of a prioritized buffer
WeightVals == {Rat(1, 2), One}

\* learn's batches of the given sizes: next observations from obsVals, actions from
\* acts, returns from rets, with a mask on obs_next for TRUE \in masks and a
\* "weight" entry for TRUE \in weighted
LearnBatches(sizes, obsVals, acts, masks, rets, weighted) ==
    UNION {
       [obs : ObsBatches({n}, Obs, {FALSE}),
        obs_next : ObsBatches({n}, obsVals, masks),
        act : [1 .. n -> acts],
        returns : [1 .. n -> rets],
        has_weight : weighted \cap {FALSE}, weight : {<<>>}]
       \cup
       [obs : ObsBatches({n}, Obs, {FALSE}),
        obs_next : ObsBatches({n}, obsVals, masks),
        act : [1 .. n -> acts],
        returns : [1 .. n -> rets],
        has_weight : weighted \cap {TRUE}, weight : [1 .. n -> WeightVals]] : n \in sizes}

(* ------------------- the policy's life: specification ------------------ *)

ConstructStep == \E a \in CtorArgs : Construct(a)

ForwardStep ==
    \E b \in ObsBatches({1}, Obs, {FALSE}) : \E c \in Calls(1, {Zero}) :
        Forward(b, c.updating, c.eps, c.rng)

LearnStep ==
    \E b \in LearnBatches({1}, {0}, {0}, {FALSE}, {support}, {FALSE}) :
    \E stepped \in Theta :
        Learn(b, TRUE, Zero, <<>>, stepped)

Next == ConstructStep \/ TargetQ \/ ForwardStep \/ LearnStep

Spec == Init /\ [][Next]_vars

(* ------------ forward, learn and the projection on their own ----------- *)

\* a constructed policy: the state __init__ leaves for arguments a
Ready(a) ==
    /\ status = "ready"
    /\ args = a
    /\ last = [op |-> "init"]
    /\ syncs = <<>>
    /\ target = Built(a).target
    /\ freq = Built(a).freq
    /\ cnt = Built(a).cnt
    /\ model = Built(a).model
    /\ model_old = Built(a).model_old
    /\ num_atoms = Built(a).num_atoms
    /\ v_min = Built(a).v_min
    /\ v_max = Built(a).v_max
    /\ support = Built(a).support
    /\ delta_z = Built(a).delta_z

\* arguments that pass the checks, with any initial weights
ReadyArgs(freqs) ==
    {a \in [num_atoms : 2 .. MaxAtoms,
            v_min : {Rat(v, 1) : v \in VVals},
            v_max : {Rat(v, 1) : v \in VVals},
            target_update_freq : freqs,
            theta : Theta] : ChecksPass(a)}

\* one forward call on any batch, with any eps, updating and random numbers
ForwardAny ==
    /\ last.op = "init"
    /\ \E b \in ObsBatches(BatchSizes, Obs, BOOLEAN) :
       \E c \in Calls(Len(b.obs), EpsVals) :
           Forward(b, c.updating, c.eps, c.rng)

InitForward == \E a \in ReadyArgs({0}) : Ready(a)

SpecForward == InitForward /\ [][ForwardAny]_vars

\* the projection of _target_dist applied to any returns and any next distribution
ProjectAny ==
    /\ last.op = "init"
    /\ \E ret \in [Atoms -> RetVals] : \E nd \in NextDists :
         last' = [op |-> "project", ret |-> ret, nd |-> nd, out |-> Project(ret, nd)]
    /\ UNCHANGED <<status, args, fields, model, model_old, syncs>>

InitProject == \E a \in ReadyArgs({0}) : a.theta = 0 /\ Ready(a)

SpecProject == InitProject /\ [][ProjectAny]_vars

\* one learn call on any batch, weighted or not
LearnAny ==
    /\ last.op = "init"
    /\ \E b \in LearnBatches(BatchSizes, {1}, Actions, {FALSE}, NStepReturns, BOOLEAN) :
       \E stepped \in {0} :
           Learn(b, TRUE, Zero, <<>>, stepped)

InitLearn == \E a \in ReadyArgs({0, 1}) : Ready(a)

SpecLearn == InitLearn /\ [][LearnAny]_vars

(* ------------------------------ C1 ------------------------------------- *)

\* C1: __init__ raises (no policy object) exactly when num_atoms <= 1 or
\* v_min >= v_max; every other configuration passes the class's own checks.
C1_RejectedIffBadConfig ==
    status # "new" =>
        (status = "rejected" <=>
            (args.num_atoms <= 1 \/ ~RLt(args.v_min, args.v_max)))

\* a rejection on v_min = v_max alone, with num_atoms that would pass
C1_Witness ==
    /\ status = "rejected"
    /\ args.num_atoms > 1
    /\ args.v_min = args.v_max

(* ------------------------------ C4 ------------------------------------- *)

\* C4: from construction on, across forward and learn calls, the support holds
\* exactly num_atoms values from v_min to v_max, consecutive ones delta_z =
\* (v_max - v_min) / (num_atoms - 1) apart; _target_q returns one copy of it per
\* requested index.
C4_SupportFixed ==
    status = "ready" =>
        /\ Len(support) = args.num_atoms
        /\ support[1] = args.v_min
        /\ support[args.num_atoms] = args.v_max
        /\ RMul(delta_z, Rat(args.num_atoms - 1, 1)) = RSub(args.v_max, args.v_min)
        /\ \A i \in 1 .. args.num_atoms - 1 : RSub(support[i + 1], support[i]) = delta_z
        /\ last.op = "target_q" =>
              /\ Len(last.out) = last.n
              /\ \A k \in 1 .. last.n : last.out[k] = support

\* _target_q called for two indices after learn has run, on a grid of three atoms
C4_Witness ==
    /\ status = "ready"
    /\ last.op = "target_q"
    /\ last.n = 2
    /\ cnt >= 2
    /\ args.num_atoms = 3

(* ------------------------------ C7 ------------------------------------- *)

\* C7: the learn counter grows by one per call; with target_update_freq = f > 0
\* the calls that synchronise the target network are exactly those numbered 0, f,
\* 2f, ..., and such a call takes its next distribution from the weights just
\* copied; with f = 0 no call synchronises or takes a remainder, and the next
\* action and the next distribution both come from the online model.
C7_SyncSchedule ==
    status = "ready" =>
        /\ cnt = Len(syncs)
        /\ \A k \in 1 .. Len(syncs) :
              syncs[k] <=> (args.target_update_freq > 0
                            /\ (k - 1) % args.target_update_freq = 0)
        /\ last.op = "learn" =>
              /\ last.act_from = last.model
              /\ last.synced => last.next_from = last.model
              /\ (args.target_update_freq > 0 /\ ~last.synced) =>
                    last.next_from = last.model_old
              /\ args.target_update_freq = 0 =>
                    /\ ~last.synced
                    /\ ~last.rem_taken
                    /\ last.next_from = last.model
                    /\ model_old = -1

\* the third learn call with f = 2 synchronises a target network that had fallen
\* behind the online model
C7_Witness ==
    /\ status = "ready"
    /\ args.target_update_freq = 2
    /\ last.op = "learn"
    /\ Len(syncs) = 3
    /\ last.synced
    /\ last.model # last.model_old
    /\ model_old = last.model

(* ------------------------------ C2 ------------------------------------- *)

\* the action an unmasked argmax of the expected values would pick
UnmaskedGreedy(s) == ArgMax(QValues(last.out.logits[s]))

\* C2: with an action mask, forward's action for every sample that has a valid
\* action is valid, both when it is the greedy choice and when exploration
\* substituted it.
C2_MaskedActionValid ==
    (last.op = "forward" /\ last.batch.has_mask) =>
        \A s \in 1 .. Len(last.batch.obs) :
            last.batch.mask[s] # {} => last.out.act[s] \in last.batch.mask[s]

\* two masked samples: the first keeps its greedy action, the second gets a random
\* one, and in both the mask excludes what an unmasked argmax would pick
C2_Witness ==
    /\ last.op = "forward"
    /\ last.batch.has_mask
    /\ Len(last.batch.obs) = 2
    /\ ~last.updating
    /\ last.eps = Rat(1, 2)
    /\ ~RLt(last.rng[1].u, last.eps)
    /\ RLt(last.rng[2].u, last.eps)
    /\ last.batch.mask[1] # {}
    /\ last.batch.mask[2] # {}
    /\ UnmaskedGreedy(1) \notin last.batch.mask[1]
    /\ ArgMax(last.rng[2].vec) \notin last.batch.mask[2]

(* ------------------------------ C3 ------------------------------------- *)

\* sum_i dist[a][i] * support[i] for sample s of the last forward, dist being
\* the distributions it returned
Expected(s, a) ==
    RSum([i \in Atoms |-> RMul(last.out.logits[s][a][i], support[i])])

\* the actions sample s may take
ValidActions(s) == IF last.batch.has_mask THEN last.batch.mask[s] ELSE Actions

NoExploration == last.updating \/ last.eps = Zero

LogitsUnchanged ==
    last.out.logits =
        [s \in 1 .. Len(last.batch.obs) |-> NetOut(last.model, last.batch.obs[s])]

\* C3 as stated: with no exploration every sample's action is a valid action of
\* maximal expected value among the valid ones, and the logits are the model's
\* distributions.
C3_Original ==
    (last.op = "forward" /\ NoExploration) =>
        /\ LogitsUnchanged
        /\ \A s \in 1 .. Len(last.batch.obs) :
              /\ last.out.act[s] \in ValidActions(s)
              /\ \A b \in ValidActions(s) :
                    ~RLt(Expected(s, last.out.act[s]), Expected(s, b))

\* C3 amended: the same for every sample that has at least one valid action; a
\* sample whose mask is all false gets action 0.
C3_Amended ==
    (last.op = "forward" /\ NoExploration) =>
        /\ LogitsUnchanged
        /\ \A s \in 1 .. Len(last.batch.obs) :
              IF ValidActions(s) = {}
              THEN last.out.act[s] = 0
              ELSE /\ last.out.act[s] \in ValidActions(s)
                   /\ \A b \in ValidActions(s) :
                         ~RLt(Expected(s, last.out.act[s]), Expected(s, b))

\* a sample whose mask excludes the unmasked argmax, beside one with no valid action
C3_Witness ==
    /\ last.op = "forward"
    /\ NoExploration
    /\ last.batch.has_mask
    /\ Len(last.batch.obs) = 2
    /\ last.batch.mask[1] # {}
    /\ UnmaskedGreedy(1) \notin last.batch.mask[1]
    /\ RLt(Expected(1, last.out.act[1]), Expected(1, UnmaskedGreedy(1)))
    /\ last.batch.mask[2] = {}

(* ------------------------------ C8 ------------------------------------- *)

\* the greedy action of sample s of the last forward
Greedy(s) ==
    GreedyAct(QValues(last.out.logits[s]), last.batch.has_mask, ValidActions(s))

\* C8: when the policy is updating or eps is (close to) 0, forward draws no random
\* number and returns the greedy actions, which the batch and the weights alone
\* determine; otherwise a sample's action is replaced by the argmax of a random
\* vector exactly when its random draw falls below eps.
C8_ExplorationGate ==
    last.op = "forward" =>
        IF last.updating \/ RLe(RAbs(last.eps), Rat(1, 100000000))
        THEN /\ last.rng = <<>>
             /\ \A s \in 1 .. Len(last.batch.obs) : last.out.act[s] = Greedy(s)
        ELSE \A s \in 1 .. Len(last.batch.obs) :
                last.out.act[s] =
                    IF RLt(last.rng[s].u, last.eps)
                    THEN ArgMax(Masked(last.rng[s].vec, ValidActions(s)))
                    ELSE Greedy(s)

\* an updating policy with eps = 1/2 on two samples: exploration could replace both
C8_Witness ==
    /\ last.op = "forward"
    /\ last.updating
    /\ last.eps = Rat(1, 2)
    /\ Len(last.batch.obs) = 2
    /\ last.out.act[1] # last.out.act[2]

(* ------------------------------ C6 ------------------------------------- *)

\* max(0, 1 - |clamp(r) - support_i| / delta_z)
TriangleWeight(r, i) ==
    RMax(Zero,
         RSub(One, RDiv(RAbs(RSub(Clamp(r, v_min, v_max), support[i])), delta_z)))

\* the share of atom i by cases: all of the mass when the clamped return lies on
\* atom i, the proximity share when it lies strictly between atom i and a
\* neighbour, nothing otherwise
ShareByCases(r, i) ==
    LET c == IF RLt(r, v_min) THEN v_min ELSE IF RLt(v_max, r) THEN v_max ELSE r
    IN  IF c = support[i] THEN One
        ELSE IF i < num_atoms /\ RLt(support[i], c) /\ RLt(c, support[i + 1])
             THEN RDiv(RSub(support[i + 1], c), RSub(support[i + 1], support[i]))
        ELSE IF i > 1 /\ RLt(support[i - 1], c) /\ RLt(c, support[i])
             THEN RDiv(RSub(c, support[i - 1]), RSub(support[i], support[i - 1]))
        ELSE Zero

\* C6: the projection gives the probability of next-state atom j to grid atom i
\* with weight max(0, 1 - |clamp(return_j) - support_i| / delta_z); that weight
\* is 1 on the atom a return lies on, splits by proximity between the two atoms a
\* return lies strictly between, and is 1 on the last (first) atom for a return at
\* or beyond v_max (v_min).
C6_Projection ==
    last.op = "project" =>
        /\ \A i \in Atoms :
              last.out[i] =
                  RSum([j \in Atoms |-> RMul(ShareByCases(last.ret[j], i), last.nd[j])])
        /\ \A i, j \in Atoms :
              TriangleWeight(last.ret[j], i) = ShareByCases(last.ret[j], i)
        /\ \A j \in Atoms :
              /\ ~RLt(last.ret[j], v_max) => ShareByCases(last.ret[j], num_atoms) = One
              /\ ~RLt(v_min, last.ret[j]) => ShareByCases(last.ret[j], 1) = One

\* three returns with mass: one strictly between two atoms, one beyond v_max, one
\* on an inner atom
C6_Witness ==
    /\ last.op = "project"
    /\ num_atoms = 3
    /\ \A j \in Atoms : last.nd[j] # Zero
    /\ RLt(support[1], last.ret[1]) /\ RLt(last.ret[1], support[2])
    /\ RLt(v_max, last.ret[2])
    /\ last.ret[3] = support[2]
    /\ last.out[1] # Zero /\ last.out[2] # Zero /\ last.out[3] # Zero

(* ------------------------------ C9 ------------------------------------- *)

\* C9: when the next-state distribution sums to 1, the target distribution has
\* every entry in [0, 1] and sums to 1, for returns inside or outside
\* [v_min, v_max].
C9_MassPreserved ==
    (last.op = "project" /\ RSum(last.nd) = One) =>
        /\ \A i \in Atoms : RLe(Zero, last.out[i]) /\ RLe(last.out[i], One)
        /\ RSum(last.out) = One

\* a normalised distribution projected from a return below v_min and one strictly
\* between two atoms
C9_Witness ==
    /\ last.op = "project"
    /\ RSum(last.nd) = One
    /\ last.nd[1] = Rat(1, 2)
    /\ last.nd[2] = Rat(1, 2)
    /\ RLt(last.ret[1], v_min)
    /\ \E i \in 1 .. num_atoms - 1 :
          RLt(support[i], last.ret[2]) /\ RLt(last.ret[2], support[i + 1])

(* ------------------------------ C5 ------------------------------------- *)

\* the cross-entropy between the target distribution of sample s and the current
\* distribution of the action taken
SampleCE(s) ==
    RNeg(RSum([i \in Atoms |->
        RMul(last.target_dist[s][i],
             Log(NetOut(last.model, last.batch.obs.obs[s])[last.batch.act[s]][i]))]))

BatchLen == Len(last.batch.act)

\* C5 as stated: the loss learn returns is the mean of the samples'
\* cross-entropies, for every batch, weighted or not.
C5_Original ==
    last.op = "learn" =>
        RMul(last.loss, Rat(BatchLen, 1)) = RSum([s \in 1 .. BatchLen |-> SampleCE(s)])

\* C5 amended: the loss is the mean over the samples of weight times
\* cross-entropy, the weight being the sample's "weight" entry, or 1 when the
\* batch carries none; without a "weight" entry it is the plain mean.
C5_Amended ==
    last.op = "learn" =>
        /\ RMul(last.loss, Rat(BatchLen, 1)) =
              RSum([s \in 1 .. BatchLen |->
                      RMul(SampleCE(s),
                           IF last.batch.has_weight THEN last.batch.weight[s] ELSE One)])
        /\ ~last.batch.has_weight =>
              RMul(last.loss, Rat(BatchLen, 1)) =
                  RSum([s \in 1 .. BatchLen |-> SampleCE(s)])
        /\ last.cross_entropy = [s \in 1 .. BatchLen |-> SampleCE(s)]

\* two samples of different cross-entropy and different weight
C5_Witness ==
    /\ last.op = "learn"
    /\ last.batch.has_weight
    /\ BatchLen = 2
    /\ last.batch.weight[1] # last.batch.weight[2]
    /\ SampleCE(1) # SampleCE(2)
    /\ SampleCE(1) # Zero
    /\ SampleCE(2) # Zero

====
